---------------------------- MODULE Spec2Model ----------------------------
(***************************************************************************)
(* apng-encoder: the Encoder of src/src/apng/encoder.rs as a state         *)
(* machine.  The byte sink is an in-memory Vec<u8> (as in tests/encoder.rs)*)
(* whose writes never fail; it is recorded chunk by chunk.  A pixel buffer *)
(* is represented by its length: the state machine and the validators     *)
(* read nothing else of it.  A Rust panic (division by zero, slice index   *)
(* out of range) is the outcome "Panic" and ends the run.                  *)
(*                                                                         *)
(* Spec runs calls with arguments of every kind.  SpecCall keeps the       *)
(* arguments and the chunks of one call made after a run of plain calls,   *)
(* SpecRun makes longer runs of plain calls, SpecColor hands create every  *)
(* Color.  The functions on bytes are run on their own, with no Encoder:   *)
(* SpecFilter runs Filter::apply, SpecInfer infer_best_filter and          *)
(* SpecChunk write_chunk, each on buffers given byte by byte; SpecControl  *)
(* runs write_frame_control on Frames of every shape, and SpecRect the     *)
(* rectangle check on 32-bit values.                                       *)
(***************************************************************************)
EXTENDS Integers, Sequences, FiniteSets, TLC

\* ------------------------------------------------------------------ bounds
CanvasWidth == 2
CanvasHeight == 2
MaxFrames == 2
MaxCalls == 3
MaxLen == 4
MaxStride == 1
MaxOffset == 1
MaxRunFrames == 4
MaxFilterLen == 4
MaxFilterStride == 2
MaxPixelBytes == 2
MaxStreamLen == 2
MaxLongLines == 1
MaxInferLen == 4
MaxNear == 2

\* ------------------------------------------------------------ data model
\* Option::None of an Option<u32> / Option<usize> argument or field
NoneV == -1

\* Color: the variant and its bit depth
Gray8  == [kind |-> "Grayscale", depth |-> 8]
RGB17  == [kind |-> "RGB", depth |-> 17]
Colors == {Gray8, RGB17}
Gray16 == [kind |-> "Grayscale", depth |-> 16]
RGB8   == [kind |-> "RGB", depth |-> 8]

Filters == {"None", "Sub", "Up", "Average", "Paeth"}

\* the Meta values handed to create
Metas ==
    { [width |-> CanvasWidth, height |-> CanvasHeight, color |-> c, frames |-> f,
       plays |-> NoneV] :
          c \in Colors, f \in 0..MaxFrames }

\* frame: Option<&Frame>; some = FALSE is the absent Frame.  delay is <<>>
\* for None and <<numerator, denominator>> for Some(Delay)
NoFrame == [some |-> FALSE, width |-> NoneV, height |-> NoneV, x |-> NoneV, y |-> NoneV,
            delay |-> <<>>, dispose_operator |-> NoneV, blend_operator |-> NoneV]
\* the frames handed to write_frame: the absent Frame, every choice of x and
\* width with y and height unset, every choice of y and height with x and
\* width unset, the canvas given explicitly, and the largest sub-rectangle
\* that starts at (MaxOffset, MaxOffset)
Fr(w, h, x, y) == [NoFrame EXCEPT !.some = TRUE, !.width = w, !.height = h,
                                  !.x = x, !.y = y]
FrameArgs ==
    {NoFrame}
    \cup { Fr(w, NoneV, x, NoneV) :
              w \in {NoneV} \cup (1..CanvasWidth), x \in {NoneV} \cup (0..MaxOffset) }
    \cup { Fr(NoneV, h, NoneV, y) :
              h \in {NoneV} \cup (1..CanvasHeight), y \in {NoneV} \cup (0..MaxOffset) }
    \cup { Fr(CanvasWidth, CanvasHeight, 0, 0),
           Fr(CanvasWidth - MaxOffset, CanvasHeight - MaxOffset, MaxOffset, MaxOffset) }
LenArgs == 0..MaxLen

\* the arguments of a call as the variable arg keeps them; NoArgs where the
\* run keeps none
Args(len, fr, filter, rs) == [image_data |-> len, frame |-> fr, filter |-> filter,
                              row_stride |-> rs]
NoArgs == Args(NoneV, NoFrame, "Infer", NoneV)
StrideArgs == {NoneV} \cup (0..MaxStride)
FilterArgs == {"Infer"} \cup Filters

\* a call of a function on bytes: the function, the filter or chunk type it
\* is about, row_stride, pixel_bytes and the bytes handed to it
Job(fn, name, row_stride, pb, bytes) ==
    [fn |-> fn, name |-> name, row_stride |-> row_stride, pixel_bytes |-> pb,
     bytes |-> bytes]
NoJob == Job("none", "none", 0, 0, <<>>)

\* ApngResult: Ok, an ApngError (with its two usize fields), or a panic
R(kind, a, b) == [kind |-> kind, expected |-> a, actual |-> b]
Ok == R("Ok", 0, 0)
Err(kind) == R(kind, 0, 0)
Panic == R("Panic", 0, 0)

\* one write_chunk call as seen at the sink: the chunk type, the sequence
\* number its payload starts with (NoneV when the payload has none), and the
\* rest of the payload as the tuple of the values written into it
Chunk(type, seq, data) == [type |-> type, seq |-> seq, data |-> data]

\* a chunk as the sink variable keeps it: type and sequence number
Brief(c) == [c EXCEPT !.data = <<>>]
BriefAll(snk) == [i \in 1..Len(snk) |-> Brief(snk[i])]

\* Color::pixel_bytes
pixel_bytes(c) ==
    CASE c.kind = "Grayscale"  -> IF c.depth = 16 THEN 2 ELSE 1
      [] c.kind = "GrayscaleA" -> IF c.depth = 16 THEN 4 ELSE 2
      [] c.kind = "RGB"        -> IF c.depth = 16 THEN 6 ELSE 3
      [] c.kind = "RGBA"       -> IF c.depth = 16 THEN 8 ELSE 4

\* validate_color with the depths of Grayscale for every variant
ValidateColorGrayDepths(c) == c.depth \in {1, 2, 4, 8, 16}

\* validate_color: TRUE iff Ok
validate_color(c) ==
    \/ c.kind = "Grayscale" /\ c.depth \in {1, 2, 4, 8, 16}
    \/ c.kind \in {"GrayscaleA", "RGB", "RGBA"} /\ c.depth \in {8, 16}

\* ------------------------------------------------------------------ state
VARIABLES
    phase,           \* "new": before create; "open": an Encoder exists;
                     \* "closed": finish consumed it; "failed": create failed;
                     \* "aborted": a call panicked
    meta,            \* Encoder.meta
    default_image,   \* Encoder.default_image
    sequence,        \* Encoder.sequence
    written_frames,  \* Encoder.written_frames
    sink,            \* what Encoder.writer has received, one entry per chunk
    op,              \* the last operation called
    result,          \* what it returned
    modified,        \* whether the rectangle of the last write_frame's frame
                     \* argument differs from the canvas
    legal,           \* history: every call so far returned Ok
    wdi,             \* history: the results write_default_image has returned
    tick,            \* history: the parity of the number of calls made, so
                     \* that a call that changes nothing else is still a step
    arg,             \* the arguments of the last call, where the run keeps
                     \* them: of a call of SpecCall's Probe actions
    emitted,         \* the chunks the last call wrote, payloads included,
                     \* where the run keeps them: of create and of a Probe
    job,             \* the arguments of one call of a function of encoder.rs
                     \* that is not a method of Encoder (SpecFilter)
    out              \* what that call has produced

\* the variables of the Encoder and its run
encvars == <<phase, meta, default_image, sequence, written_frames, sink,
             op, result, modified, legal, wdi, tick, arg, emitted>>

vars == <<phase, meta, default_image, sequence, written_frames, sink,
          op, result, modified, legal, wdi, tick, arg, emitted, job, out>>

\* ---------------------------------------------------------------- helpers
\* frame.and_then(|it| it.f).unwrap_or(d)
FieldOr(fr, f, d) == IF fr.some /\ fr[f] # NoneV THEN fr[f] ELSE d

\* Encoder::compute_rect
compute_rect(m, fr) ==
    LET width  == FieldOr(fr, "width", m.width)
        height == FieldOr(fr, "height", m.height)
        x      == FieldOr(fr, "x", 0)
        y      == FieldOr(fr, "y", 0)
    IN  [width |-> width, height |-> height, x |-> x, y |-> y,
         modified |-> (x # 0 \/ y # 0 \/ width # m.width \/ height # m.height)]

\* Rectangle::right, Rectangle::bottom (the sums of this model's rectangles
\* are far below 2^32)
right(rect) == rect.x + rect.width
bottom(rect) == rect.y + rect.height

\* ------------------------------------------------------------- image data
\* image_data.chunks(row_stride): the number of lines, and whether the last
\* one is shorter than row_stride
Lines(len, row_stride) == (len + row_stride - 1) \div row_stride
Partial(len, row_stride) == len % row_stride # 0

\* compute_row_stride without its comparison of the right edge
ComputeRowStrideRightUnchecked(m, len, rs, rect) ==
    LET row_stride  == IF rs # NoneV THEN rs ELSE rect.width * pixel_bytes(m.color)
    IN  IF row_stride = 0
        THEN [res |-> Panic, row_stride |-> row_stride]
        ELSE LET data_height == len \div row_stride
             IN  IF \/ m.height < bottom(rect)
                    \/ bottom(rect) < data_height
                 THEN [res |-> Err("TooLargeImage"), row_stride |-> row_stride]
                 ELSE IF data_height < rect.height
                 THEN [res |-> Err("TooSmallImage"), row_stride |-> row_stride]
                 ELSE [res |-> Ok, row_stride |-> row_stride]

\* compute_row_stride letting a buffer one line short pass
ComputeRowStrideOneLineShort(m, len, rs, rect) ==
    LET row_stride  == IF rs # NoneV THEN rs ELSE rect.width * pixel_bytes(m.color)
    IN  IF row_stride = 0
        THEN [res |-> Panic, row_stride |-> row_stride]
        ELSE LET data_height == len \div row_stride
             IN  IF \/ m.width < right(rect)
                    \/ m.height < bottom(rect)
                    \/ bottom(rect) < data_height
                 THEN [res |-> Err("TooLargeImage"), row_stride |-> row_stride]
                 ELSE IF data_height + 1 < rect.height
                 THEN [res |-> Err("TooSmallImage"), row_stride |-> row_stride]
                 ELSE [res |-> Ok, row_stride |-> row_stride]

\* Encoder::compute_row_stride: Ok(row_stride), TooLargeImage, TooSmallImage,
\* or the panic of the division by a zero row_stride
compute_row_stride(m, len, rs, rect) ==
    LET row_stride  == IF rs # NoneV THEN rs ELSE rect.width * pixel_bytes(m.color)
    IN  IF row_stride = 0
        THEN [res |-> Panic, row_stride |-> row_stride]
        ELSE LET data_height == len \div row_stride
             IN  IF \/ m.width < right(rect)
                    \/ m.height < bottom(rect)
                    \/ bottom(rect) < data_height
                 THEN [res |-> Err("TooLargeImage"), row_stride |-> row_stride]
                 ELSE IF data_height < rect.height
                 THEN [res |-> Err("TooSmallImage"), row_stride |-> row_stride]
                 ELSE [res |-> Ok, row_stride |-> row_stride]

\* Filter::apply: whether the filter function panics on a buffer of len bytes
\* (row_stride > 0).  filter_none indexes nothing; filter_sub slices
\* [..pixel_bytes] and indexes every line up to row_stride; filter_up indexes
\* lines[0] and every later line up to row_stride; filter_average and
\* filter_paeth do both.
FilterPanics(filter, len, row_stride, pb) ==
    CASE filter = "None" -> FALSE
      [] filter = "Sub"  -> len > 0 /\ (pb > row_stride \/ Partial(len, row_stride))
      [] filter = "Up"   -> len = 0 \/ (Lines(len, row_stride) >= 2 /\ Partial(len, row_stride))
      [] filter \in {"Average", "Paeth"} ->
             len = 0 \/ pb > row_stride \/ Partial(len, row_stride)

\* the number of bytes a filter function writes when it does not panic: a
\* tag byte per line, then the line (filter_none, the first line of
\* filter_up) or the row_stride bytes of the line buffer
FilteredSize(filter, len, row_stride) ==
    CASE filter = "None" -> Lines(len, row_stride) + len
      [] filter = "Up"   ->
             IF Lines(len, row_stride) = 1 THEN 1 + len
             ELSE Lines(len, row_stride) * (1 + row_stride)
      [] OTHER -> Lines(len, row_stride) * (1 + row_stride)

\* Filter::into_enum_iter: the variants in declaration order
FilterOrder == <<"None", "Sub", "Up", "Average", "Paeth">>

Min(a, b) == IF a < b THEN a ELSE b
Max(a, b) == IF a < b THEN b ELSE a

SampleLines == 10
SampleThreshold == 50

\* infer_best_filter: the length of tiny_image_data
TinyLen(len, row_stride) ==
    LET lines == len \div row_stride
    IN  IF SampleThreshold < lines
        THEN LET top_end      == row_stride * SampleLines
                 middle_start == Max(top_end, (lines \div 2) * row_stride)
                 middle_end   == Min(middle_start + SampleLines * row_stride, len)
                 bottom_start == Max(middle_end,
                                     (Max(lines, SampleLines) - SampleLines) * row_stride)
             IN  top_end + (middle_end - middle_start) + (len - bottom_start)
        ELSE Min(SampleLines, lines) * row_stride

\* infer_best_filter: Panic when a filter function panics on the sample, else
\* the last filter (max_by_key keeps the last maximum) of the greatest size
infer_best_filter(len, row_stride, pb) ==
    LET tiny == TinyLen(len, row_stride)
        size(i) == FilteredSize(FilterOrder[i], tiny, row_stride)
        best == CHOOSE i \in 1..5 :
                    /\ \A j \in 1..5 : size(j) <= size(i)
                    /\ \A j \in (i+1)..5 : size(j) < size(i)
    IN  IF \E i \in 1..5 : FilterPanics(FilterOrder[i], tiny, row_stride, pb)
        THEN [res |-> Panic, filter |-> "None"]
        ELSE [res |-> Ok, filter |-> FilterOrder[best]]

\* Encoder::make_image_data: the result, and for Ok the filter applied and the
\* number of filtered scanlines fed to the zlib stream
make_image_data(m, len, rs, rect, filter) ==
    LET c  == compute_row_stride(m, len, rs, rect)
        pb == pixel_bytes(m.color)
        f  == IF filter # "Infer" THEN [res |-> Ok, filter |-> filter]
              ELSE infer_best_filter(len, c.row_stride, pb)
    IN  IF c.res # Ok THEN [res |-> c.res, rows |-> 0, filter |-> "None"]
        ELSE IF f.res # Ok THEN [res |-> f.res, rows |-> 0, filter |-> "None"]
        ELSE IF FilterPanics(f.filter, len, c.row_stride, pb)
        THEN [res |-> Panic, rows |-> 0, filter |-> f.filter]
        ELSE [res |-> Ok, rows |-> Lines(len, c.row_stride), filter |-> f.filter]

\* ------------------------------------------------------ the filters, bytewise
\* a buffer is here the sequence of its bytes.  s[i] of the code, i counted
\* from 0: the byte, or Oob where the index is out of range (the panic)
Oob == -1
At(s, i) == IF 0 <= i /\ i < Len(s) THEN s[i + 1] ELSE Oob

\* u8::wrapping_sub, and the operand x / 2, on bytes that were read
wrapping_sub(a, b) == IF a = Oob \/ b = Oob THEN Oob ELSE (a - b) % 256
Half(a) == IF a = Oob THEN Oob ELSE a \div 2

\* image_data.chunks(row_stride): the lines, the last one possibly short
chunks(image_data, row_stride) ==
    [k \in 1..Lines(Len(image_data), row_stride) |->
        SubSeq(image_data, (k - 1) * row_stride + 1,
               Min(k * row_stride, Len(image_data)))]

\* the concatenation of a sequence of byte sequences
RECURSIVE Concat(_)
Concat(ss) == IF ss = <<>> THEN <<>> ELSE Head(ss) \o Concat(Tail(ss))

\* the line buffer is the row_stride bytes f(j - 1), j from 1; its slice
\* buffer[..pixel_bytes] is out of range when pixel_bytes > row_stride
Sliced(row_stride, pb, buffer) == IF pb > row_stride THEN <<Oob>> ELSE buffer

\* filter_none: what e receives
filter_none(image_data, row_stride, pb) ==
    LET lines == chunks(image_data, row_stride)
    IN  Concat([k \in 1..Len(lines) |-> <<0>> \o lines[k]])

\* filter_sub
filter_sub(image_data, row_stride, pb) ==
    LET lines == chunks(image_data, row_stride)
        sub(line) ==
            LET f(i) == IF i < pb THEN At(line, i)
                        ELSE wrapping_sub(At(line, i), At(line, i - pb))
            IN  Sliced(row_stride, pb, [j \in 1..row_stride |-> f(j - 1)])
    IN  Concat([k \in 1..Len(lines) |-> <<1>> \o sub(lines[k])])

\* filter_up: lines[0] as it is, then each line minus the one above
filter_up(image_data, row_stride, pb) ==
    LET lines == chunks(image_data, row_stride)
        up(k) ==
            LET f(i) == wrapping_sub(At(lines[k], i), At(lines[k - 1], i))
            IN  [j \in 1..row_stride |-> f(j - 1)]
    IN  IF Len(lines) = 0 THEN <<Oob>>
        ELSE Concat([k \in 1..Len(lines) |->
                        <<2>> \o (IF k = 1 THEN lines[1] ELSE up(k))])

\* filter_average with the sum of left and up formed in eight bits
FilterAverageWrappingSum(image_data, row_stride, pb) ==
    LET lines == chunks(image_data, row_stride)
        first ==
            LET f(i) == IF i < pb THEN At(lines[1], i)
                        ELSE wrapping_sub(At(lines[1], i), Half(At(lines[1], i - pb)))
            IN  Sliced(row_stride, pb, [j \in 1..row_stride |-> f(j - 1)])
        average(k) ==
            LET sum(i) == IF At(lines[k], i - pb) = Oob \/ At(lines[k - 1], i) = Oob
                          THEN Oob
                          ELSE ((At(lines[k], i - pb) + At(lines[k - 1], i)) % 256) \div 2
                f(i) == IF i < pb
                        THEN wrapping_sub(At(lines[k], i), Half(At(lines[k - 1], i)))
                        ELSE wrapping_sub(At(lines[k], i), sum(i))
            IN  [j \in 1..row_stride |-> f(j - 1)]
    IN  IF Len(lines) = 0 THEN <<Oob>>
        ELSE Concat([k \in 1..Len(lines) |->
                        <<3>> \o (IF k = 1 THEN first ELSE average(k))])

\* filter_average
filter_average(image_data, row_stride, pb) ==
    LET lines == chunks(image_data, row_stride)
        first ==
            LET f(i) == IF i < pb THEN At(lines[1], i)
                        ELSE wrapping_sub(At(lines[1], i), Half(At(lines[1], i - pb)))
            IN  Sliced(row_stride, pb, [j \in 1..row_stride |-> f(j - 1)])
        average(k) ==
            LET sum(i) == IF At(lines[k], i - pb) = Oob \/ At(lines[k - 1], i) = Oob
                          THEN Oob
                          ELSE (At(lines[k], i - pb) + At(lines[k - 1], i)) \div 2
                f(i) == IF i < pb
                        THEN wrapping_sub(At(lines[k], i), Half(At(lines[k - 1], i)))
                        ELSE wrapping_sub(At(lines[k], i), sum(i))
            IN  [j \in 1..row_stride |-> f(j - 1)]
    IN  IF Len(lines) = 0 THEN <<Oob>>
        ELSE Concat([k \in 1..Len(lines) |->
                        <<3>> \o (IF k = 1 THEN first ELSE average(k))])

\* filter_paeth: fn paeth(left, up_left, up)
Abs(n) == IF n < 0 THEN -n ELSE n
\* fn paeth with base formed in eight bits
PaethWrappingBase(left, up_left, up) ==
    IF left = Oob \/ up_left = Oob \/ up = Oob THEN Oob
    ELSE LET base      == (left + up - up_left) % 256
             d_left    == Abs(base - left)
             d_up      == Abs(base - up)
             d_up_left == Abs(base - up_left)
         IN  IF d_left <= d_up /\ d_left <= d_up_left THEN left
             ELSE IF d_up <= d_up_left THEN up
             ELSE up_left

paeth(left, up_left, up) ==
    IF left = Oob \/ up_left = Oob \/ up = Oob THEN Oob
    ELSE LET base      == left + up - up_left
             d_left    == Abs(base - left)
             d_up      == Abs(base - up)
             d_up_left == Abs(base - up_left)
         IN  IF d_left <= d_up /\ d_left <= d_up_left THEN left
             ELSE IF d_up <= d_up_left THEN up
             ELSE up_left

\* filter_paeth
filter_paeth(image_data, row_stride, pb) ==
    LET lines == chunks(image_data, row_stride)
        first ==
            LET f(i) == IF i < pb THEN At(lines[1], i)
                        ELSE wrapping_sub(At(lines[1], i),
                                          paeth(At(lines[1], i - pb), 0, 0))
            IN  Sliced(row_stride, pb, [j \in 1..row_stride |-> f(j - 1)])
        later(k) ==
            LET f(i) == IF i < pb
                        THEN wrapping_sub(At(lines[k], i),
                                          paeth(0, 0, At(lines[k - 1], i)))
                        ELSE wrapping_sub(At(lines[k], i),
                                          paeth(At(lines[k], i - pb),
                                                At(lines[k - 1], i - pb),
                                                At(lines[k - 1], i)))
            IN  [j \in 1..row_stride |-> f(j - 1)]
    IN  IF Len(lines) = 0 THEN <<Oob>>
        ELSE Concat([k \in 1..Len(lines) |->
                        <<4>> \o (IF k = 1 THEN first ELSE later(k))])

\* Filter::apply: the bytes e receives, or the panic of an index out of range
apply(filter, image_data, row_stride, pb) ==
    LET bytes == CASE filter = "None"    -> filter_none(image_data, row_stride, pb)
                   [] filter = "Sub"     -> filter_sub(image_data, row_stride, pb)
                   [] filter = "Up"      -> filter_up(image_data, row_stride, pb)
                   [] filter = "Average" -> filter_average(image_data, row_stride, pb)
                   [] filter = "Paeth"   -> filter_paeth(image_data, row_stride, pb)
    IN  IF \E i \in 1..Len(bytes) : bytes[i] = Oob
        THEN [res |-> Panic, bytes |-> <<>>]
        ELSE [res |-> Ok, bytes |-> bytes]

\* ------------------------------------------------------------- operations
\* the Encoder's fields as one value
Enc == [default_image |-> default_image, sequence |-> sequence,
        written_frames |-> written_frames, sink |-> sink]

\* next_sequence without its increment
NextSequenceStuck(s) == s

\* Encoder::next_sequence: the value stored back (the old one is returned)
next_sequence(s) == s + 1

\* Encoder::write_chunk on an infallible sink
write_chunk(snk, type, seq, data) == Append(snk, Chunk(type, seq, data))

\* Encoder::write_signature: the eight bytes, written without write_chunk
Signature == <<137, 80, 78, 71, 13, 10, 26, 10>>
write_signature(snk) == Append(snk, Chunk("signature", NoneV, Signature))

\* Encoder::write_image_header: width, height, bit depth, color type and
\* the three method bytes
color_type(c) ==
    CASE c.kind = "Grayscale"  -> 0
      [] c.kind = "GrayscaleA" -> 4
      [] c.kind = "RGB"        -> 2
      [] c.kind = "RGBA"       -> 6
write_image_header(snk, m) ==
    write_chunk(snk, "IHDR", NoneV,
                <<m.width, m.height, m.color.depth, color_type(m.color), 0, 0, 0>>)

\* Encoder::write_animation_control: frames and plays.unwrap_or(0)
write_animation_control(snk, m) ==
    write_chunk(snk, "acTL", NoneV,
                <<m.frames, IF m.plays = NoneV THEN 0 ELSE m.plays>>)

\* write_frame_control writing the canvas for the rectangle
WriteFrameControlOfCanvas(e, m, fr) ==
    LET rect == compute_rect(m, fr)
    IN  [enc  |-> [e EXCEPT !.sequence = next_sequence(e.sequence),
                            !.sink = write_chunk(e.sink, "fcTL", e.sequence,
                                         <<m.width, m.height, 0, 0, 0, 0, 0, 0>>)],
         rect |-> rect]

\* Encoder::write_frame_control: after the sequence number the payload holds
\* the rectangle, the delay and the two operators
write_frame_control(e, m, fr) ==
    LET rect    == compute_rect(m, fr)
        delay   == IF fr.some /\ fr.delay # <<>> THEN fr.delay ELSE <<0, 0>>
        dispose == FieldOr(fr, "dispose_operator", 0)
        blend   == FieldOr(fr, "blend_operator", 0)
    IN  [enc  |-> [e EXCEPT !.sequence = next_sequence(e.sequence),
                            !.sink = write_chunk(e.sink, "fcTL", e.sequence,
                                         <<rect.width, rect.height, rect.x, rect.y,
                                           delay[1], delay[2],
                                           dispose, blend>>)],
         rect |-> rect]

\* write_animation_frame taking no sequence number of its own for the fdAT
WriteAnimationFrameOneNumber(e, m, len, rs, fr, filter) ==
    LET c   == write_frame_control(e, m, fr)
        seq == c.enc.sequence
        img == make_image_data(m, len, rs, c.rect, filter)
    IN  IF img.res # Ok THEN [enc |-> c.enc, res |-> img.res]
        ELSE [enc |-> [c.enc EXCEPT !.sink = write_chunk(c.enc.sink, "fdAT", seq,
                                                         <<img.rows, img.filter>>)],
              res |-> Ok]

\* Encoder::write_animation_frame
write_animation_frame(e, m, len, rs, fr, filter) ==
    LET c   == write_frame_control(e, m, fr)
        seq == c.enc.sequence
        e2  == [c.enc EXCEPT !.sequence = next_sequence(seq)]
        img == make_image_data(m, len, rs, c.rect, filter)
    IN  IF img.res # Ok THEN [enc |-> e2, res |-> img.res]
        ELSE [enc |-> [e2 EXCEPT !.sink = write_chunk(e2.sink, "fdAT", seq,
                                                      <<img.rows, img.filter>>)],
              res |-> Ok]

\* Encoder::write_animation_frame_with_default
write_animation_frame_with_default(e, m, len, rs, fr, filter) ==
    LET c   == write_frame_control(e, m, fr)
        img == make_image_data(m, len, rs, c.rect, filter)
    IN  IF c.rect.modified
        THEN [enc |-> c.enc, res |-> Err("InvalidDefaultImageRectangle")]
        ELSE IF img.res # Ok THEN [enc |-> c.enc, res |-> img.res]
        ELSE [enc |-> [c.enc EXCEPT !.sink = write_chunk(c.enc.sink, "IDAT", NoneV,
                                                         <<img.rows, img.filter>>)],
              res |-> Ok]

\* the frame-count check one frame too late
TooManyOffByOne(m, wf) == m.frames + 1 < wf

\* write_frame: (self.meta.frames as usize) < self.written_frames
TooMany(m, wf) == m.frames < wf

\* write_frame never taking the branch of the first image
FirstImageNever(e) == FALSE

\* the branch of write_frame taken on the default_image flag alone
FirstImageFlagOnly(e) == ~e.default_image

\* write_frame: !self.default_image && self.sequence == 0
FirstImage(e) == ~e.default_image /\ e.sequence = 0

\* Encoder::write_frame
write_frame(e, m, len, fr, filter, rs) ==
    LET e1 == [e EXCEPT !.written_frames = e.written_frames + 1]
    IN  IF TooMany(m, e1.written_frames)
        THEN [enc |-> e1, res |-> R("TooManyFrames", m.frames, e1.written_frames)]
        ELSE IF FirstImage(e1)
        THEN write_animation_frame_with_default(e1, m, len, rs, fr, filter)
        ELSE write_animation_frame(e1, m, len, rs, fr, filter)

\* write_default_image without its first guard
WriteDefaultImageUnguarded(e, m, len, filter, rs) ==
    LET e1  == [e EXCEPT !.default_image = TRUE]
        img == make_image_data(m, len, rs, compute_rect(m, NoFrame), filter)
    IN  IF 0 < e.sequence THEN [enc |-> e, res |-> Err("DefaultImageNotAtFirst")]
        ELSE IF img.res # Ok THEN [enc |-> e1, res |-> img.res]
        ELSE [enc |-> [e1 EXCEPT !.sink = write_chunk(e1.sink, "IDAT", NoneV,
                                                      <<img.rows, img.filter>>)],
              res |-> Ok]

\* Encoder::write_default_image
write_default_image(e, m, len, filter, rs) ==
    LET e1  == [e EXCEPT !.default_image = TRUE]
        img == make_image_data(m, len, rs, compute_rect(m, NoFrame), filter)
    IN  IF e.default_image THEN [enc |-> e, res |-> Err("MulitiDefaultImage")]
        ELSE IF 0 < e.sequence THEN [enc |-> e, res |-> Err("DefaultImageNotAtFirst")]
        ELSE IF img.res # Ok THEN [enc |-> e1, res |-> img.res]
        ELSE [enc |-> [e1 EXCEPT !.sink = write_chunk(e1.sink, "IDAT", NoneV,
                                                      <<img.rows, img.filter>>)],
              res |-> Ok]

\* the check of finish one frame short
NotEnoughOffByOne(m, wf) == wf + 1 < m.frames

\* finish: self.written_frames < self.meta.frames as usize
NotEnough(m, wf) == wf < m.frames

\* Encoder::finish
finish(e, m) ==
    IF NotEnough(m, e.written_frames)
    THEN [enc |-> e, res |-> R("NotEnoughFrames", m.frames, e.written_frames)]
    ELSE [enc |-> [e EXCEPT !.sink = write_chunk(e.sink, "IEND", NoneV, <<>>)], res |-> Ok]

\* create writing the acTL before the IHDR
CreateControlFirst(snk, m) ==
    LET instance == [default_image |-> FALSE, sequence |-> 0, written_frames |-> 0,
                     sink |-> snk]
    IN  IF ~validate_color(m.color)
        THEN [enc |-> instance, res |-> Err("InvalidColor")]
        ELSE [enc |-> [instance EXCEPT !.sink =
                          write_image_header(
                              write_animation_control(write_signature(snk), m), m)],
              res |-> Ok]

\* Encoder::create: validate_color, then the signature, IHDR and acTL on a
\* fresh Encoder
create(snk, m) ==
    LET instance == [default_image |-> FALSE, sequence |-> 0, written_frames |-> 0,
                     sink |-> snk]
    IN  IF ~validate_color(m.color)
        THEN [enc |-> instance, res |-> Err("InvalidColor")]
        ELSE [enc |-> [instance EXCEPT !.sink =
                          write_animation_control(
                              write_image_header(write_signature(snk), m), m)],
              res |-> Ok]

\* the Encoder's fields after a call, and the record of the call
Returned(name, r, fr) ==
    /\ default_image' = r.enc.default_image
    /\ sequence' = r.enc.sequence
    /\ written_frames' = r.enc.written_frames
    /\ sink' = BriefAll(r.enc.sink)
    /\ op' = name
    /\ result' = r.res
    /\ modified' = compute_rect(meta, fr).modified
    /\ legal' = (legal /\ r.res = Ok)
    /\ tick' = 1 - tick
    /\ UNCHANGED <<meta, job, out>>

\* what the run keeps of a call beyond that: its arguments and the chunks it
\* wrote in full, or neither
Kept(keep, r, a) ==
    /\ arg' = IF keep THEN a ELSE NoArgs
    /\ emitted' = IF keep THEN SubSeq(r.enc.sink, Len(sink) + 1, Len(r.enc.sink))
                  ELSE <<>>

\* ---------------------------------------------------------------- actions
\* before create, with the Meta to hand to it one of metas
Fresh(metas) ==
    /\ phase = "new"
    /\ meta \in metas
    /\ default_image = FALSE
    /\ sequence = 0
    /\ written_frames = 0
    /\ sink = <<>>
    /\ op = "none"
    /\ result = Ok
    /\ modified = FALSE
    /\ legal = TRUE
    /\ wdi = {}
    /\ tick = 0
    /\ arg = NoArgs
    /\ emitted = <<>>

\* what a call on bytes has produced: nothing yet, or its result with the
\* bytes written, the sizes recorded and the filter returned
Out(state, res, bytes, sizes, filter) ==
    [state |-> state, res |-> res, bytes |-> bytes, sizes |-> sizes, filter |-> filter]
NoOut == Out("pending", Ok, <<>>, <<>>, "none")

InitOf(metas) == Fresh(metas) /\ job = NoJob /\ out = NoOut

Init == InitOf(Metas)

\* Encoder::create on the empty sink
Create ==
    /\ phase = "new"
    /\ LET r == create(sink, meta)
       IN  /\ Returned("create", r, NoFrame)
           /\ Kept(TRUE, r, NoArgs)
           /\ phase' = IF r.res = Ok THEN "open" ELSE "failed"
    /\ UNCHANGED wdi

\* a write_default_image call with arguments from the given sets
WriteDefaultImageOf(lens, filters, strides, keep) ==
    /\ phase = "open"
    /\ \E len \in lens, filter \in filters, rs \in strides :
          LET r == write_default_image(Enc, meta, len, filter, rs)
          IN  /\ Returned("write_default_image", r, NoFrame)
              /\ Kept(keep, r, Args(len, NoFrame, filter, rs))
              /\ phase' = IF r.res = Panic THEN "aborted" ELSE "open"
              /\ wdi' = wdi \cup {r.res.kind}

\* a write_frame call with arguments from the given sets
WriteFrameOf(lens, frs, filters, strides, keep) ==
    /\ phase = "open"
    /\ \E len \in lens, fr \in frs, filter \in filters, rs \in strides :
          LET r == write_frame(Enc, meta, len, fr, filter, rs)
          IN  /\ Returned("write_frame", r, fr)
              /\ Kept(keep, r, Args(len, fr, filter, rs))
              /\ phase' = IF r.res = Panic THEN "aborted" ELSE "open"
              /\ UNCHANGED wdi

WriteDefaultImage == WriteDefaultImageOf(LenArgs, FilterArgs, StrideArgs, FALSE)

WriteFrame ==
    /\ written_frames < MaxCalls
    /\ WriteFrameOf(LenArgs, FrameArgs, FilterArgs, StrideArgs, FALSE)

\* finish(mut self) consumes the Encoder whatever it returns
Finish ==
    /\ phase = "open"
    /\ LET r == finish(Enc, meta)
       IN  /\ Returned("finish", r, NoFrame)
           /\ Kept(FALSE, r, NoArgs)
    /\ phase' = "closed"
    /\ UNCHANGED wdi

Next == Create \/ WriteDefaultImage \/ WriteFrame \/ Finish

Spec == Init /\ [][Next]_vars

\* ------------------------------------------- one call with its arguments
\* SpecCall: a run of calls with plain arguments (no Frame, no filter, no
\* row_stride; a buffer of the canvas's size or an empty one), among them at
\* most one write_default_image and no write_frame beyond Meta.frames, and
\* then one call with arguments of every kind, which the run keeps together
\* with the chunks the call writes.
CallMetas ==
    { [width |-> CanvasWidth, height |-> CanvasHeight, color |-> c, frames |-> f,
       plays |-> NoneV] : c \in {Gray8, Gray16}, f \in 0..MaxFrames }

\* the frames of the kept call: FrameArgs and the frames of no width or height
ProbeFrameArgs ==
    FrameArgs \cup {Fr(0, NoneV, NoneV, NoneV), Fr(NoneV, 0, NoneV, NoneV)}

\* the buffer lengths of the plain calls: empty, and the canvas exactly
ExactLen(m) == m.height * m.width * pixel_bytes(m.color)
PlainLenArgs(m) == {0, ExactLen(m)}

Probed == arg # NoArgs

SetupDefaultImage ==
    /\ ~Probed
    /\ wdi = {}
    /\ WriteDefaultImageOf(PlainLenArgs(meta), {"Infer"}, {NoneV}, FALSE)

SetupFrame ==
    /\ ~Probed
    /\ written_frames < meta.frames
    /\ WriteFrameOf(PlainLenArgs(meta), {NoFrame}, {"Infer"}, {NoneV}, FALSE)

ProbeWriteDefaultImage ==
    /\ ~Probed
    /\ WriteDefaultImageOf(LenArgs, FilterArgs, StrideArgs, TRUE)

ProbeWriteFrame ==
    /\ ~Probed
    /\ WriteFrameOf(LenArgs, ProbeFrameArgs, FilterArgs, StrideArgs, TRUE)

NextCall ==
    Create \/ SetupDefaultImage \/ SetupFrame \/ ProbeWriteDefaultImage \/ ProbeWriteFrame

SpecCall == InitOf(CallMetas) /\ [][NextCall]_vars

\* ------------------------------------------------------------ longer runs
\* SpecRun: the runs of up to MaxRunFrames frames made of calls with plain
\* arguments, among them at most one write_default_image and no write_frame
\* beyond Meta.frames, and finish
RunMetas ==
    { [width |-> CanvasWidth, height |-> CanvasHeight, color |-> RGB8, frames |-> f,
       plays |-> NoneV] : f \in 0..MaxRunFrames }

NextRun == Create \/ SetupDefaultImage \/ SetupFrame \/ Finish

SpecRun == InitOf(RunMetas) /\ [][NextRun]_vars

\* ------------------------------------------------------ buffers of bytes
\* the byte values of the buffers handed to the functions on bytes, and the
\* buffers of up to n of them
FilterBytes == {0, 1, 128, 255}
Buffers(n) == UNION { [1..k -> FilterBytes] : k \in 0..n }

\* -------------------------------------------------- the chunks as bytes
\* WriteBytesExt::write_u32::<BigEndian> and write_u16::<BigEndian>
be32(n) == <<n \div 16777216, (n \div 65536) % 256, (n \div 256) % 256, n % 256>>
be16(n) == <<(n \div 256) % 256, n % 256>>

\* a 32-bit register as its two 16-bit halves <<high, low>>
RECURSIVE BitXor(_, _)
BitXor(a, b) ==
    IF a = 0 THEN b
    ELSE IF b = 0 THEN a
    ELSE ((a + b) % 2) + 2 * BitXor(a \div 2, b \div 2)
Xor(a, b) == <<BitXor(a[1], b[1]), BitXor(a[2], b[2])>>
Shr1(a) == <<a[1] \div 2, (a[2] \div 2) + (a[1] % 2) * 32768>>
Shr8(a) == <<a[1] \div 256, (a[2] \div 256) + (a[1] % 256) * 256>>
Ones == <<65535, 65535>>
\* the bytes of a register, highest first
RegBytes(a) == <<a[1] \div 256, a[1] % 256, a[2] \div 256, a[2] % 256>>

\* the CRC-32 of zlib: the reflected polynomial EDB88320, a register shifted
\* n bits
CrcPoly == <<60856, 33568>>
CrcBit(c) == IF c[2] % 2 = 1 THEN Xor(Shr1(c), CrcPoly) ELSE Shr1(c)
RECURSIVE CrcShift(_, _)
CrcShift(c, n) == IF n = 0 THEN c ELSE CrcBit(CrcShift(c, n - 1))
\* flate2::Crc: the table of the 256 byte values, and Crc::update a byte at
\* a time through it, from the register before to the register after
CrcTable == [n \in 0..255 |-> CrcShift(<<0, n>>, 8)]
Registers == (0..65535) \X (0..65535)
CrcByte == [c \in Registers, byte \in 0..255 |->
               Xor(Shr8(c), CrcTable[BitXor(c[2] % 256, byte)])]
RECURSIVE CrcUpdate(_, _)
CrcUpdate(c, bytes) ==
    IF bytes = <<>> THEN c
    ELSE CrcByte[CrcUpdate(c, SubSeq(bytes, 1, Len(bytes) - 1)), bytes[Len(bytes)]]
\* Crc::new and Crc::sum
CrcNew == Ones
CrcSum(c) == Xor(c, Ones)

\* the four bytes of a chunk type
TypeBytes(type) ==
    CASE type = "IHDR" -> <<73, 72, 68, 82>>
      [] type = "acTL" -> <<97, 99, 84, 76>>
      [] type = "fcTL" -> <<102, 99, 84, 76>>
      [] type = "IDAT" -> <<73, 68, 65, 84>>
      [] type = "fdAT" -> <<102, 100, 65, 84>>
      [] type = "IEND" -> <<73, 69, 78, 68>>

\* write_chunk computing its CRC over the data alone
WriteChunkCrcOfData(chunk_type, chunk_data) ==
    be32(Len(chunk_data)) \o chunk_type \o chunk_data
        \o RegBytes(CrcSum(CrcUpdate(CrcNew, chunk_data)))

\* Encoder::write_chunk: the bytes the writer receives
write_chunk_bytes(chunk_type, chunk_data) ==
    be32(Len(chunk_data)) \o chunk_type \o chunk_data
        \o RegBytes(CrcSum(CrcUpdate(CrcUpdate(CrcNew, chunk_type), chunk_data)))

\* the chunk_data with the offsets of an fcTL written before its extents
ChunkDataOffsetsFirst(c, stream) ==
    CASE c.type = "IHDR" ->
             be32(c.data[1]) \o be32(c.data[2])
                 \o <<c.data[3], c.data[4], c.data[5], c.data[6], c.data[7]>>
      [] c.type = "acTL" -> be32(c.data[1]) \o be32(c.data[2])
      [] c.type = "fcTL" ->
             be32(c.seq) \o be32(c.data[3]) \o be32(c.data[4]) \o be32(c.data[1])
                 \o be32(c.data[2]) \o be16(c.data[5]) \o be16(c.data[6])
                 \o <<c.data[7], c.data[8]>>
      [] c.type = "IDAT" -> stream
      [] c.type = "fdAT" -> be32(c.seq) \o stream
      [] c.type = "IEND" -> <<>>

\* the chunk_data of a chunk of the sink: the buffer its writer built, the
\* compressed stream of an IDAT or fdAT being whatever bytes stream is
ChunkData(c, stream) ==
    CASE c.type = "IHDR" ->
             be32(c.data[1]) \o be32(c.data[2])
                 \o <<c.data[3], c.data[4], c.data[5], c.data[6], c.data[7]>>
      [] c.type = "acTL" -> be32(c.data[1]) \o be32(c.data[2])
      [] c.type = "fcTL" ->
             be32(c.seq) \o be32(c.data[1]) \o be32(c.data[2]) \o be32(c.data[3])
                 \o be32(c.data[4]) \o be16(c.data[5]) \o be16(c.data[6])
                 \o <<c.data[7], c.data[8]>>
      [] c.type = "IDAT" -> stream
      [] c.type = "fdAT" -> be32(c.seq) \o stream
      [] c.type = "IEND" -> <<>>

\* SpecChunk: write_chunk on each chunk that the Encoder's methods build for
\* the Metas and frames of SpecCall at sequence numbers up to 2 * MaxFrames,
\* with every stream of up to MaxStreamLen bytes for the compressed data
ChunksBuilt ==
    LET e0(q) == [default_image |-> FALSE, sequence |-> q, written_frames |-> 0,
                  sink |-> <<>>]
    IN  UNION { {create(<<>>, m).enc.sink[2], create(<<>>, m).enc.sink[3],
                 finish(e0(0), [m EXCEPT !.frames = 0]).enc.sink[1]} : m \in CallMetas }
        \cup { write_frame_control(e0(q), m, fr).enc.sink[1] :
                   q \in 0..(2 * MaxFrames), m \in CallMetas, fr \in FrameArgs }
        \cup { Chunk("IDAT", NoneV, <<>>) }
        \cup { Chunk("fdAT", q, <<>>) : q \in 0..(2 * MaxFrames) }
ChunkJobs ==
    { Job("write_chunk", c.type, 0, 0, ChunkData(c, stream)) :
          c \in ChunksBuilt, stream \in Buffers(MaxStreamLen) }

\* never read
UnusedMeta == CHOOSE m \in Metas : TRUE

WriteChunk ==
    /\ job.fn = "write_chunk" /\ out.state = "pending"
    /\ out' = Out("done", Ok, write_chunk_bytes(TypeBytes(job.name), job.bytes),
                  <<>>, "none")
    /\ UNCHANGED <<encvars, job>>

NextChunk == WriteChunk

InitChunk == Fresh({UnusedMeta}) /\ job \in ChunkJobs /\ out = NoOut

SpecChunk == InitChunk /\ [][NextChunk]_vars

\* the PNG CRC: each byte is added into the low end of the register, which
\* is then divided eight times by the polynomial; the register starts as all
\* ones and is complemented at the end
PngCrcByte == [c \in Registers, byte \in 0..255 |->
                  Xor(Shr8(c), CrcShift(<<0, BitXor(c[2] % 256, byte)>>, 8))]
RECURSIVE PngUpdateCrc(_, _)
PngUpdateCrc(c, bytes) ==
    IF bytes = <<>> THEN c
    ELSE PngCrcByte[PngUpdateCrc(c, SubSeq(bytes, 1, Len(bytes) - 1)),
                    bytes[Len(bytes)]]
PngCrc(bytes) == Xor(PngUpdateCrc(Ones, bytes), Ones)

\* a big-endian u32 read back from four bytes
FromBe32(b) == ((b[1] * 256 + b[2]) * 256 + b[3]) * 256 + b[4]

\* ------------------------------------------------- the filters on bytes
\* SpecFilter: Filter::apply on a buffer of up to MaxFilterLen bytes, for each
\* filter, row_stride and pixel_bytes; no Encoder is created
FilterJobs ==
    { Job("apply", f, rs, pb, b) :
          f \in Filters, rs \in 1..MaxFilterStride, pb \in 1..MaxPixelBytes,
          b \in Buffers(MaxFilterLen) }

ApplyFilter ==
    /\ job.fn = "apply" /\ out.state = "pending"
    /\ LET r == apply(job.name, job.bytes, job.row_stride, job.pixel_bytes)
       IN  out' = Out("done", r.res, r.bytes, <<>>, job.name)
    /\ UNCHANGED <<encvars, job>>

NextFilter == ApplyFilter

\* no Encoder: its variables stay as before create, for a Meta that is
InitFilter == Fresh({UnusedMeta}) /\ job \in FilterJobs /\ out = NoOut

SpecFilter == InitFilter /\ [][NextFilter]_vars

\* tiny_image_data without the lines of the bottom
TinyImageDataNoBottom(image_data, row_stride) ==
    LET len   == Len(image_data)
        lines == len \div row_stride
    IN  IF SampleThreshold < lines
        THEN LET top_end      == row_stride * SampleLines
                 middle_start == Max(top_end, (lines \div 2) * row_stride)
                 middle_end   == Min(middle_start + SampleLines * row_stride, len)
             IN  SubSeq(image_data, 1, top_end)
                     \o SubSeq(image_data, middle_start + 1, middle_end)
        ELSE SubSeq(image_data, 1, Min(SampleLines, lines) * row_stride)

\* infer_best_filter: the sample of the lines, tiny_image_data
tiny_image_data(image_data, row_stride) ==
    LET len   == Len(image_data)
        lines == len \div row_stride
    IN  IF SampleThreshold < lines
        THEN LET top_end      == row_stride * SampleLines
                 middle_start == Max(top_end, (lines \div 2) * row_stride)
                 middle_end   == Min(middle_start + SampleLines * row_stride, len)
                 bottom_start == Max(middle_end,
                                     (Max(lines, SampleLines) - SampleLines) * row_stride)
             IN  SubSeq(image_data, 1, top_end)
                     \o SubSeq(image_data, middle_start + 1, middle_end)
                     \o SubSeq(image_data, bottom_start + 1, len)
        ELSE SubSeq(image_data, 1, Min(SampleLines, lines) * row_stride)

\* get_compressed_size: the filter applied into a plain Vec, and its length
get_compressed_size(filter, image_data, row_stride, pb) ==
    LET r == apply(filter, image_data, row_stride, pb)
    IN  [res |-> r.res, size |-> Len(r.bytes)]

\* infer_best_filter, the loop: results holds the outcome of
\* get_compressed_size for each filter in Filter::into_enum_iter order
Results(tiny, row_stride, pb) ==
    <<get_compressed_size(FilterOrder[1], tiny, row_stride, pb),
      get_compressed_size(FilterOrder[2], tiny, row_stride, pb),
      get_compressed_size(FilterOrder[3], tiny, row_stride, pb),
      get_compressed_size(FilterOrder[4], tiny, row_stride, pb),
      get_compressed_size(FilterOrder[5], tiny, row_stride, pb)>>

\* infer_best_filter, the end: the panic of a filter function has ended the
\* loop, else max_by_key returns the last filter of the greatest size
MaxByKey(results) ==
    LET best == CHOOSE i \in 1..5 :
                    /\ \A j \in 1..5 : results[j].size <= results[i].size
                    /\ \A j \in (i + 1)..5 : results[j].size < results[i].size
    IN  IF \E i \in 1..5 : results[i].res # Ok
        THEN [res |-> Panic, filter |-> "None", sizes |-> <<>>]
        ELSE [res |-> Ok, filter |-> FilterOrder[best],
              sizes |-> [i \in 1..5 |-> results[i].size]]

\* infer_best_filter on the bytes: the division by a row_stride of 0 is a
\* panic; the sample and the results are each computed once
InferBestFilter(image_data, row_stride, pb) ==
    IF row_stride = 0 THEN [res |-> Panic, filter |-> "None", sizes |-> <<>>]
    ELSE LET sampled == { Results(tiny, row_stride, pb) :
                              tiny \in {tiny_image_data(image_data, row_stride)} }
         IN  CHOOSE r \in { MaxByKey(results) : results \in sampled } : TRUE

\* SpecInfer: infer_best_filter on the buffers of up to MaxInferLen bytes and
\* on buffers of more than SampleThreshold lines, for each row_stride and
\* pixel_bytes; out.bytes is tiny_image_data, the sample (empty where the
\* division has panicked before it is filled)
InferBytes == {0, 255}
InferBuffers == UNION { [1..k -> InferBytes] : k \in 0..MaxInferLen }
LongBuffers == { [i \in 1..(n * rs) |-> i % 256] :
                     n \in (SampleThreshold + 1)..(SampleThreshold + MaxLongLines),
                     rs \in 1..MaxFilterStride }
InferJobs ==
    { Job("infer", "Infer", rs, pb, b) :
          rs \in 0..MaxFilterStride, pb \in 1..MaxPixelBytes,
          b \in InferBuffers \cup LongBuffers }

InferFilter ==
    /\ job.fn = "infer" /\ out.state = "pending"
    /\ LET r == InferBestFilter(job.bytes, job.row_stride, job.pixel_bytes)
           tiny == IF job.row_stride = 0 THEN <<>>
                   ELSE tiny_image_data(job.bytes, job.row_stride)
       IN  out' = Out("done", r.res, tiny, r.sizes, r.filter)
    /\ UNCHANGED <<encvars, job>>

NextInfer == InferFilter

InitInfer == Fresh({UnusedMeta}) /\ job \in InferJobs /\ out = NoOut

SpecInfer == InitInfer /\ [][NextInfer]_vars

\* the least length of a zlib stream: its two header bytes and the four of
\* its Adler-32 checksum, around a deflate stream of at least one byte
ZlibStreamMin == 7

\* the PNG inverse filters (PNG specification, 9.2 Filter types): the
\* predictor of filter type tag from a (left), b (above) and c (above left)
PaethPredictor(a, b, c) ==
    LET p  == a + b - c
        pa == Abs(p - a)
        pb == Abs(p - b)
        pc == Abs(p - c)
    IN  IF pa <= pb /\ pa <= pc THEN a ELSE IF pb <= pc THEN b ELSE c
Predictor(tag, a, b, c) ==
    CASE tag = 0 -> 0
      [] tag = 1 -> a
      [] tag = 2 -> b
      [] tag = 3 -> (a + b) \div 2
      [] tag = 4 -> PaethPredictor(a, b, c)

\* the first n bytes of the scanline reconstructed from the filtered bytes
\* filt and the reconstructed scanline above, prior; bpp bytes per pixel
RECURSIVE Recon(_, _, _, _, _)
Recon(tag, filt, prior, bpp, n) ==
    IF n = 0 THEN <<>>
    ELSE LET r == Recon(tag, filt, prior, bpp, n - 1)
             a == IF n > bpp THEN r[n - bpp] ELSE 0
             b == prior[n]
             c == IF n > bpp THEN prior[n - bpp] ELSE 0
         IN  Append(r, (filt[n] + Predictor(tag, a, b, c)) % 256)

\* the scanlines reconstructed from a filtered stream of lines of a tag byte
\* and row_stride bytes, given the scanline above the first
RECURSIVE Unfilter(_, _, _, _)
Unfilter(bytes, row_stride, bpp, prior) ==
    IF Len(bytes) < 1 + row_stride THEN <<>>
    ELSE LET line == Recon(bytes[1], SubSeq(bytes, 2, 1 + row_stride), prior, bpp,
                           row_stride)
         IN  line \o Unfilter(SubSeq(bytes, 2 + row_stride, Len(bytes)),
                              row_stride, bpp, line)

\* the tag byte of each filter (PNG specification, 9.2)
TagOf(filter) ==
    CASE filter = "None" -> 0 [] filter = "Sub" -> 1 [] filter = "Up" -> 2
      [] filter = "Average" -> 3 [] filter = "Paeth" -> 4

\* the stream is whole lines that all start with the tag, and its inverse is
\* the buffer
RoundTrip(bytes, filter, row_stride, pb, image_data) ==
    /\ Len(bytes) = (Len(image_data) \div row_stride) * (1 + row_stride)
    /\ \A k \in 0..(Len(image_data) \div row_stride - 1) :
          bytes[k * (1 + row_stride) + 1] = TagOf(filter)
    /\ Unfilter(bytes, row_stride, pb, [i \in 1..row_stride |-> 0]) = image_data

\* ------------------------------------------ the rectangle check in 32 bits
\* a u32 as its two 16-bit halves <<high, low>>; the u32 values within
\* MaxNear of 0, of 2^31 and of 2^32 - 1
Small32(n) == <<0, n>>
Near32 ==
    { Small32(n) : n \in 0..MaxNear }
    \cup { <<32768, n>> : n \in 0..MaxNear }
    \cup { <<65535, 65535 - n>> : n \in 0..MaxNear }
Lt32(a, b) == a[1] < b[1] \/ (a[1] = b[1] /\ a[2] < b[2])

\* a + b on u32: the sum modulo 2^32 and whether it overflowed
Add32(a, b) ==
    LET lo == a[2] + b[2]
        hi == a[1] + b[1] + (lo \div 65536)
    IN  [value |-> <<hi % 65536, lo % 65536>>, overflow |-> hi >= 65536]

\* Rectangle::right and Rectangle::bottom on u32: where the sum overflows,
\* the panic of a build with overflow checks (the dev profile), the wrapped
\* sum of a build without them (the release profile)
right32(rect, checks) ==
    LET r == Add32(rect.x, rect.width)
    IN  IF r.overflow /\ checks THEN [res |-> Panic, value |-> r.value]
        ELSE [res |-> Ok, value |-> r.value]
bottom32(rect, checks) ==
    LET r == Add32(rect.y, rect.height)
    IN  IF r.overflow /\ checks THEN [res |-> Panic, value |-> r.value]
        ELSE [res |-> Ok, value |-> r.value]

\* compute_row_stride from its comparisons on, for a buffer of data_height
\* rows: the || are evaluated left to right and stop at the first true
compute_row_stride32(m, data_height, rect, checks) ==
    LET r == right32(rect, checks)
        b == bottom32(rect, checks)
    IN  IF r.res = Panic THEN Panic
        ELSE IF Lt32(m.width, r.value) THEN Err("TooLargeImage")
        ELSE IF b.res = Panic THEN Panic
        ELSE IF Lt32(m.height, b.value) \/ Lt32(b.value, data_height)
        THEN Err("TooLargeImage")
        ELSE IF Lt32(data_height, rect.height) THEN Err("TooSmallImage")
        ELSE Ok

\* SpecRect: the comparisons of compute_row_stride for rectangles, canvases
\* and row counts drawn from Near32, in a build of either profile.  The job
\* holds x, y, width, height, Meta.width, Meta.height and data_height in
\* bytes, and the profile in name
RectJobs ==
    { Job("compute_row_stride", profile, 0, 0, <<x, y, w, h, mw, mh, dh>>) :
          profile \in {"dev", "release"},
          x \in Near32, y \in Near32, w \in Near32, h \in {Small32(1), <<65535, 65535>>},
          mw \in {Small32(CanvasWidth), <<65535, 65535>>},
          mh \in {Small32(CanvasHeight)},
          dh \in {Small32(1)} }
RectOfJob(j) == [x |-> j.bytes[1], y |-> j.bytes[2], width |-> j.bytes[3],
                 height |-> j.bytes[4]]
MetaOfJob(j) == [width |-> j.bytes[5], height |-> j.bytes[6]]

CheckRectangle ==
    /\ job.fn = "compute_row_stride" /\ out.state = "pending"
    /\ out' = Out("done",
                  compute_row_stride32(MetaOfJob(job), job.bytes[7], RectOfJob(job),
                                       job.name = "dev"),
                  <<>>, <<>>, "none")
    /\ UNCHANGED <<encvars, job>>

NextRect == CheckRectangle

InitRect == Fresh({UnusedMeta}) /\ job \in RectJobs /\ out = NoOut

SpecRect == InitRect /\ [][NextRect]_vars

\* a + b > limit, the sum taken as an integer
Exceeds32(a, b, limit) == Add32(a, b).overflow \/ Lt32(limit, Add32(a, b).value)

\* --------------------------------------------- the frame control as bytes
\* SpecControl: write_frame_control at each sequence number up to
\* 2 * MaxFrames, for Frames with every field set or unset, and the absent
\* Frame; the canvas is higher than wide so that the two extents differ
ControlMetas ==
    { [width |-> CanvasWidth, height |-> CanvasHeight + 1, color |-> Gray8,
       frames |-> MaxFrames, plays |-> NoneV] }
ControlFrames ==
    {NoFrame}
    \cup { [some |-> TRUE, width |-> w, height |-> h, x |-> x, y |-> y, delay |-> d,
            dispose_operator |-> dop, blend_operator |-> bop] :
               w \in {NoneV, 1, 66051}, h \in {NoneV, 1}, x \in {NoneV, 0, 1},
               y \in {NoneV, 258}, d \in {<<>>, <<1, 100>>, <<258, 0>>},
               dop \in {NoneV, 0, 1, 2}, bop \in {NoneV, 0, 1} }
ControlJobs ==
    { Job("write_frame_control", "fcTL", 0, 0, <<q, fr>>) :
          q \in 0..(2 * MaxFrames), fr \in ControlFrames }

WriteFrameControl ==
    /\ job.fn = "write_frame_control" /\ out.state = "pending"
    /\ LET e == [default_image |-> FALSE, sequence |-> job.bytes[1],
                 written_frames |-> 1, sink |-> <<>>]
           c == write_frame_control(e, meta, job.bytes[2])
       IN  out' = Out("done", Ok, ChunkData(c.enc.sink[1], <<>>),
                      <<c.enc.sequence>>, "none")
    /\ UNCHANGED <<encvars, job>>

NextControl == WriteFrameControl

InitControl == Fresh(ControlMetas) /\ job \in ControlJobs /\ out = NoOut

SpecControl == InitControl /\ [][NextControl]_vars

\* two bytes read as a big-endian number
FromBe16(b) == b[1] * 256 + b[2]

\* ------------------------------------------------- create on every Color
\* SpecColor: create, handed a Meta of any Color: the four variants, each
\* with every u8 for its bit depth
ColorKinds == {"Grayscale", "GrayscaleA", "RGB", "RGBA"}
ColorMetas ==
    { [width |-> CanvasWidth, height |-> CanvasHeight,
       color |-> [kind |-> k, depth |-> d], frames |-> 1, plays |-> NoneV] :
          k \in ColorKinds, d \in 0..255 }

NextColor == Create

SpecColor == InitOf(ColorMetas) /\ [][NextColor]_vars

\* ------------------------------------------------------- reading the sink
\* the chunks of the given types, in emission order
Only(snk, types) == SelectSeq(snk, LAMBDA c : c.type \in types)
Count(snk, type) == Len(Only(snk, {type}))

\* the animation frames accepted so far: the image-data chunks that follow
\* an fcTL
AcceptedFrames(snk) ==
    Cardinality({ i \in 2..Len(snk) :
                     snk[i].type \in {"IDAT", "fdAT"} /\ snk[i-1].type = "fcTL" })

\* the chunk types of the sink, in emission order
Types(snk) == [i \in 1..Len(snk) |-> snk[i].type]

\* the chunk types of n frames: fcTL and fdAT in turn, the first fdAT being an
\* IDAT instead where no separate default image precedes the frames
FrameTypes(n, separate) ==
    [i \in 1..(2 * n) |-> IF i % 2 = 1 THEN "fcTL"
                          ELSE IF i = 2 /\ ~separate THEN "IDAT" ELSE "fdAT"]

\* a step of the run is a call on the open Encoder
Calls(name) == phase = "open" /\ op' = name

\* a step of the run is a call whose arguments the run keeps
Probes(name) == Calls(name) /\ arg' # NoArgs

\* the rectangle of kept arguments, and the row_stride they ask for: the
\* explicit one, else width * pixel_bytes
RectOf(a) == compute_rect(meta, a.frame)
RowStrideOf(a) ==
    IF a.row_stride # NoneV THEN a.row_stride
    ELSE RectOf(a).width * pixel_bytes(meta.color)
\* floor(len / row_stride)
DataHeightOf(a) == a.image_data \div RowStrideOf(a)
\* the rectangle lies inside the canvas
Inside(rect) == rect.x + rect.width <= meta.width /\ rect.y + rect.height <= meta.height

\* ----------------------------------------------------------------- claims
\* C1: in a run whose calls have all succeeded, the sequence numbers of the
\* fcTL and fdAT chunks, in emission order, are 0, 1, 2, ...
C1_SequenceNumbers ==
    legal =>
        LET numbered == Only(sink, {"fcTL", "fdAT"})
        IN  \A i \in 1..Len(numbered) : numbered[i].seq = i - 1

\* a finished legal run with a default image and two frames: 0, 1, 2, 3
C1_Witness ==
    /\ legal /\ op = "finish"
    /\ Count(sink, "IDAT") = 1 /\ sink[4].type = "IDAT"
    /\ Len(Only(sink, {"fcTL", "fdAT"})) = 4

\* C2: the sink never holds more than one IDAT, and no IDAT after an fdAT
C2_SingleIdat ==
    /\ Count(sink, "IDAT") <= 1
    /\ \A i, j \in 1..Len(sink) :
          (i < j /\ sink[i].type = "fdAT") => sink[j].type # "IDAT"

\* write_default_image called after an IDAT and an fdAT, and refused
C2_Witness ==
    /\ Count(sink, "IDAT") = 1 /\ Count(sink, "fdAT") >= 1
    /\ op = "write_default_image" /\ result.kind = "DefaultImageNotAtFirst"

\* C3: when finish returns Ok the sink holds Meta.frames fcTL chunks
C3_FrameAccounting ==
    (op = "finish" /\ result = Ok) => Count(sink, "fcTL") = meta.frames

\* finish succeeding on two frames of which one was rejected for its buffer
C3_Witness ==
    /\ op = "finish" /\ result = Ok /\ meta.frames = 2
    /\ ~legal /\ AcceptedFrames(sink) = 1

\* C4 as claimed (for the Meta of the specification, frames >= 1):
\* written_frames <= Meta.frames in every state
C4_WrittenFramesBounded ==
    (phase # "new" /\ meta.frames >= 1) => written_frames <= meta.frames

\* C5 as claimed (frames >= 1): where written_frames differs from
\* Meta.frames, finish emits no IEND
C5_FinishOnlyAtExactCount ==
    (op = "finish" /\ meta.frames >= 1 /\ written_frames # meta.frames)
        => Count(sink, "IEND") = 0

\* C6 as claimed (frames >= 1): write_frame after Meta.frames accepted frames
\* returns TooManyFrames(Meta.frames, Meta.frames + 1) and writes nothing
C6_TooManyFramesReport ==
    [][ (Calls("write_frame") /\ meta.frames >= 1
            /\ AcceptedFrames(sink) = meta.frames)
        => /\ result' = R("TooManyFrames", meta.frames, meta.frames + 1)
           /\ sink' = sink ]_vars

C8_RejectedBeforeBytes ==
    [][ ( /\ Calls("write_frame") \/ Calls("write_default_image")
          /\ result'.kind \in {"TooLargeImage", "TooSmallImage",
                               "InvalidDefaultImageRectangle"} )
        => sink' = sink ]_vars

\* C9 as claimed (frames >= 1): the first write_frame on an Encoder whose
\* sink holds no default image returns InvalidDefaultImageRectangle exactly
\* when the frame's rectangle is modified, and no other write_frame does
C9_FirstFrameRectangle ==
    [][ (Calls("write_frame") /\ meta.frames >= 1)
        => ( result'.kind = "InvalidDefaultImageRectangle"
             <=> (written_frames = 0 /\ Count(sink, "IDAT") = 0 /\ modified') ) ]_vars

\* C10 as claimed: a write_default_image after an earlier write_default_image
\* returns MulitiDefaultImage and emits no IDAT
C10_SecondDefaultImage ==
    [][ (Calls("write_default_image") /\ wdi # {})
        => (result'.kind = "MulitiDefaultImage" /\ sink' = sink) ]_vars

\* C10 amended: a write_default_image after an earlier one emits no IDAT and
\* returns MulitiDefaultImage, unless the earlier ones were all refused with
\* DefaultImageNotAtFirst, and then it is refused with DefaultImageNotAtFirst
C10_SecondDefaultImageAmended ==
    [][ (Calls("write_default_image") /\ wdi # {})
        => /\ sink' = sink
           /\ result'.kind = IF wdi \subseteq {"DefaultImageNotAtFirst"}
                             THEN "DefaultImageNotAtFirst"
                             ELSE "MulitiDefaultImage" ]_vars

\* a second write_default_image after one that wrote the IDAT
C10_Witness ==
    /\ op = "write_default_image" /\ result.kind = "MulitiDefaultImage"
    /\ "Ok" \in wdi /\ Count(sink, "IDAT") = 1

\* C11 as claimed: a write_default_image called when the sink holds an fcTL
\* and no write_default_image has written a default image returns
\* DefaultImageNotAtFirst and emits nothing
C11_DefaultImageAfterFrame ==
    [][ (Calls("write_default_image") /\ Count(sink, "fcTL") >= 1 /\ "Ok" \notin wdi)
        => (result'.kind = "DefaultImageNotAtFirst" /\ sink' = sink) ]_vars

\* the three cases of C12, of kept arguments
TooLargeCase(a) ==
    \/ RectOf(a).x + RectOf(a).width > meta.width
    \/ RectOf(a).y + RectOf(a).height > meta.height
    \/ RowStrideOf(a) # 0 /\ DataHeightOf(a) > RectOf(a).y + RectOf(a).height

TooSmallCase(a) ==
    /\ Inside(RectOf(a))
    /\ RowStrideOf(a) # 0 /\ DataHeightOf(a) < RectOf(a).height

\* C13 as claimed (frames >= 1): where the rectangle lies inside the canvas
\* and floor(len / row_stride) is less than its height, write_frame returns
\* TooSmallImage
C13_TooSmallImage ==
    [][ (Probes("write_frame") /\ meta.frames >= 1 /\ TooSmallCase(arg'))
        => result'.kind = "TooSmallImage" ]_vars

\* C13 amended: in that case write_frame returns TooManyFrames when
\* Meta.frames calls have been made already, else
\* InvalidDefaultImageRectangle when it writes the first image (default_image
\* false, sequence 0) and the rectangle is not the canvas, else TooSmallImage
C13_TooSmallImageAmended ==
    [][ (Probes("write_frame") /\ TooSmallCase(arg'))
        => result' = IF meta.frames <= written_frames
                     THEN R("TooManyFrames", meta.frames, written_frames + 1)
                     ELSE IF ~default_image /\ sequence = 0 /\ RectOf(arg').modified
                     THEN Err("InvalidDefaultImageRectangle")
                     ELSE Err("TooSmallImage") ]_vars

\* a first frame with no Frame and a buffer that is not empty, refused
C13_Witness ==
    /\ op = "write_frame" /\ Probed /\ written_frames = 1
    /\ ~arg.frame.some /\ arg.row_stride = NoneV /\ arg.image_data > 0
    /\ result.kind = "TooSmallImage"

\* C14 as claimed, for a call that reaches the validation of its buffer
\* (frames >= 1, fewer than Meta.frames calls made, a rectangle of at least
\* one pixel inside the canvas that is the canvas on the first image, no
\* explicit row_stride): write_frame returns Ok exactly when the buffer holds
\* height * row_stride bytes
C14_ExactBuffer ==
    [][ ( /\ Probes("write_frame")
          /\ meta.frames >= 1 /\ written_frames < meta.frames
          /\ arg'.row_stride = NoneV
          /\ RectOf(arg').width >= 1 /\ RectOf(arg').height >= 1
          /\ Inside(RectOf(arg'))
          /\ ~(~default_image /\ sequence = 0 /\ RectOf(arg').modified) )
        => (result' = Ok <=> arg'.image_data = RectOf(arg').height * RowStrideOf(arg')) ]_vars

\* the case of C15, of kept arguments: no explicit row_stride, a rectangle
\* inside the canvas, a buffer of height * width * pixel_bytes bytes
ExactCase(a) ==
    /\ a.row_stride = NoneV
    /\ Inside(RectOf(a))
    /\ a.image_data = RectOf(a).height * RectOf(a).width * pixel_bytes(meta.color)

\* the chunks are one fcTL carrying the rectangle and then one fdAT
FrameOf(written, rect) ==
    /\ Len(written) = 2
    /\ written[1].type = "fcTL"
    /\ SubSeq(written[1].data, 1, 4) = <<rect.width, rect.height, rect.x, rect.y>>
    /\ written[2].type = "fdAT"

C16_CreateValidatesColor ==
    op = "create" =>
        /\ result = Ok <=>
               \/ meta.color.kind = "Grayscale" /\ meta.color.depth \in {1, 2, 4, 8, 16}
               \/ meta.color.kind \in {"GrayscaleA", "RGB", "RGBA"}
                     /\ meta.color.depth \in {8, 16}
        /\ result # Ok => (result = Err("InvalidColor") /\ sink = <<>> /\ emitted = <<>>)

\* create refusing RGB of depth 4, a depth that Grayscale admits
C16_Witness ==
    /\ op = "create" /\ meta.color = [kind |-> "RGB", depth |-> 4]
    /\ result = Err("InvalidColor") /\ sink = <<>>

\* C17: in a run whose calls have all succeeded the sink holds the signature,
\* IHDR, acTL, an IDAT exactly when write_default_image was called, then for
\* each frame an fcTL and right after it an fdAT (an IDAT for the first frame
\* when write_default_image was not called), and, once finish has returned,
\* after Meta.frames such frames the IEND
C17_ChunkOrder ==
    (legal /\ phase \in {"open", "closed"}) =>
        LET separate == "Ok" \in wdi
            n == IF op = "finish" THEN meta.frames ELSE written_frames
        IN  Types(sink) =
                <<"signature", "IHDR", "acTL">>
                \o (IF separate THEN <<"IDAT">> ELSE <<>>)
                \o FrameTypes(n, separate)
                \o (IF op = "finish" THEN <<"IEND">> ELSE <<>>)

\* a finished run of two frames and no write_default_image, all calls Ok
C17_Witness ==
    /\ legal /\ op = "finish" /\ wdi = {} /\ meta.frames = 2
    /\ Types(sink) = <<"signature", "IHDR", "acTL", "fcTL", "IDAT", "fcTL", "fdAT", "IEND">>

\* C18: where write_default_image and then n write_frame calls have
\* succeeded, the sink holds one IDAT, before every fcTL and with no sequence
\* number, and then for k = 0..n-1 an fcTL of sequence 2k and right after it
\* an fdAT of sequence 2k+1
C18_DefaultImageThenFrames ==
    (legal /\ "Ok" \in wdi) =>
        /\ Count(sink, "IDAT") = 1
        /\ sink[4] = Brief(Chunk("IDAT", NoneV, <<>>))
        /\ Len(sink) >= 4 + 2 * written_frames
        /\ \A k \in 0..(written_frames - 1) :
              /\ sink[5 + 2 * k] = Brief(Chunk("fcTL", 2 * k, <<>>))
              /\ sink[6 + 2 * k] = Brief(Chunk("fdAT", 2 * k + 1, <<>>))

\* write_default_image and three frames: the sequence numbers 0 to 5
C18_Witness ==
    /\ legal /\ "Ok" \in wdi /\ op = "write_frame" /\ written_frames = 3
    /\ [i \in 1..6 |-> sink[4 + i].seq] = <<0, 1, 2, 3, 4, 5>>

\* the sink of a finished run: fcTL of sequence 0, IDAT, three pairs of fcTL
\* and fdAT, IEND
FourFrames ==
    /\ Types(sink) = <<"signature", "IHDR", "acTL", "fcTL", "IDAT",
                       "fcTL", "fdAT", "fcTL", "fdAT", "fcTL", "fdAT", "IEND">>
    /\ sink[4].seq = 0

\* C19 as claimed: for frames = 4 and no write_default_image, four successful
\* write_frame calls and finish leave that sink, the three pairs carrying the
\* sequence numbers 1 to 7
C19_FourFrames ==
    (legal /\ op = "finish" /\ meta.frames = 4 /\ wdi = {}) =>
        /\ FourFrames
        /\ {sink[i].seq : i \in 6..11} = 1..7

\* C19 amended: the three pairs carry, in emission order, the sequence
\* numbers 1 to 6
C19_FourFramesAmended ==
    (legal /\ op = "finish" /\ meta.frames = 4 /\ wdi = {}) =>
        /\ FourFrames
        /\ [i \in 1..6 |-> sink[5 + i].seq] = <<1, 2, 3, 4, 5, 6>>

\* the finished run of four frames
C19_Witness ==
    /\ legal /\ op = "finish" /\ meta.frames = 4 /\ wdi = {}
    /\ written_frames = 4 /\ Count(sink, "IEND") = 1

\* C20: when create returns Ok the sink holds the eight bytes 89 50 4E 47 0D
\* 0A 1A 0A first, then the IHDR chunk, then the acTL chunk, and nothing
\* else, and the Encoder has default_image false, sequence 0 and
\* written_frames 0
C20_CreateHeader ==
    (op = "create" /\ result = Ok) =>
        /\ Len(emitted) = 3
        /\ emitted[1].type = "signature"
        /\ emitted[1].data = <<137, 80, 78, 71, 13, 10, 26, 10>>
        /\ emitted[2].type = "IHDR"
        /\ emitted[3].type = "acTL"
        /\ sink = BriefAll(emitted)
        /\ default_image = FALSE /\ sequence = 0 /\ written_frames = 0

\* create accepting RGBA of depth 16
C20_Witness ==
    /\ op = "create" /\ result = Ok /\ meta.color = [kind |-> "RGBA", depth |-> 16]
    /\ Types(sink) = <<"signature", "IHDR", "acTL">>

\* C21 as claimed: for each filter, row_stride, pixel_bytes and buffer of
\* whole rows, the filter returns, and the PNG inverse filter of the tag it
\* emitted turns what it wrote back into the buffer
C21_FilterRoundTrip ==
    (job.fn = "apply" /\ out.state = "done" /\ Len(job.bytes) % job.row_stride = 0)
        => /\ out.res = Ok
           /\ RoundTrip(out.bytes, job.name, job.row_stride, job.pixel_bytes, job.bytes)

\* the round trip of every call of C21 that returns
C21_RoundTripWhereReturned ==
    (job.fn = "apply" /\ out.state = "done" /\ Len(job.bytes) % job.row_stride = 0
        /\ out.res = Ok)
        => RoundTrip(out.bytes, job.name, job.row_stride, job.pixel_bytes, job.bytes)

\* the calls of C21 that panic: a buffer of no rows with Up, Average or
\* Paeth, and one of some rows with Sub, Average or Paeth when pixel_bytes
\* exceeds row_stride
C21_PanicsWhere ==
    (job.fn = "apply" /\ out.state = "done" /\ Len(job.bytes) % job.row_stride = 0)
        => (out.res = Panic <=>
               \/ job.bytes = <<>> /\ job.name \in {"Up", "Average", "Paeth"}
               \/ job.bytes # <<>> /\ job.name \in {"Sub", "Average", "Paeth"}
                     /\ job.pixel_bytes > job.row_stride)

\* Filter::apply panics exactly where FilterPanics says, and else writes
\* FilteredSize bytes
FilterSummaryAgrees ==
    (job.fn = "apply" /\ out.state = "done") =>
        /\ out.res = Panic <=>
               FilterPanics(job.name, Len(job.bytes), job.row_stride, job.pixel_bytes)
        /\ out.res = Ok =>
               Len(out.bytes) = FilteredSize(job.name, Len(job.bytes), job.row_stride)

\* C22: what write_chunk hands to the writer is the data length as four
\* big-endian bytes, the four bytes of the type, the data, and the four
\* big-endian bytes of the PNG CRC of type and data together
C22_ChunkLayout ==
    (job.fn = "write_chunk" /\ out.state = "done") =>
        LET b == out.bytes
            n == Len(job.bytes)
        IN  /\ Len(b) = 12 + n
            /\ FromBe32(SubSeq(b, 1, 4)) = n
            /\ SubSeq(b, 5, 8) = TypeBytes(job.name)
            /\ SubSeq(b, 9, 8 + n) = job.bytes
            /\ SubSeq(b, 9 + n, 12 + n)
                   = RegBytes(PngCrc(TypeBytes(job.name) \o job.bytes))

\* the IEND chunk: 00 00 00 00 49 45 4E 44 AE 42 60 82
C22_Witness ==
    /\ job.fn = "write_chunk" /\ job.name = "IEND" /\ out.state = "done"
    /\ out.bytes = <<0, 0, 0, 0, 73, 69, 78, 68, 174, 66, 96, 130>>

\* C23: with no filter passed, each of the five filters is run over the
\* sampled scanlines, the length recorded for each is that of its compressed
\* output (no shorter than the framing of a zlib stream), and the filter
\* returned is one of the greatest recorded length
C23_InferByCompressedSize ==
    (job.fn = "infer" /\ out.state = "done" /\ out.res = Ok) =>
        /\ Len(out.sizes) = 5
        /\ \A i \in 1..5 : out.sizes[i] >= ZlibStreamMin
        /\ \E i \in 1..5 :
               /\ out.filter = FilterOrder[i]
               /\ \A j \in 1..5 : out.sizes[j] <= out.sizes[i]

\* what infer_best_filter records and returns: the length of each filter's
\* uncompressed output over the sample, and the last filter of the greatest
\* such length, which on every sample that no filter panics on is Paeth
C23_InferByFilteredSize ==
    (job.fn = "infer" /\ out.state = "done" /\ out.res = Ok) =>
        LET tiny == tiny_image_data(job.bytes, job.row_stride)
        IN  /\ Len(out.sizes) = 5
            /\ \A i \in 1..5 :
                   out.sizes[i] = Len(apply(FilterOrder[i], tiny, job.row_stride,
                                            job.pixel_bytes).bytes)
            /\ \A i \in 1..5 : out.sizes[i] = Len(tiny) + Len(tiny) \div job.row_stride
            /\ out.filter = "Paeth"

\* the inference on lengths used by make_image_data agrees with the one on
\* bytes
InferSummaryAgrees ==
    (job.fn = "infer" /\ out.state = "done" /\ job.row_stride > 0) =>
        LET a == infer_best_filter(Len(job.bytes), job.row_stride, job.pixel_bytes)
        IN  a.res = out.res /\ (a.res = Ok => a.filter = out.filter)

\* C24 as claimed (frames >= 1): a write_frame that returns TooManyFrames,
\* TooLargeImage, TooSmallImage or InvalidDefaultImageRectangle has left
\* written_frames, sequence and default_image as they were
C24_RejectedFrameKeepsCounters ==
    [][ ( /\ Calls("write_frame") /\ meta.frames >= 1
          /\ result'.kind \in {"TooManyFrames", "TooLargeImage", "TooSmallImage",
                               "InvalidDefaultImageRectangle"} )
        => /\ written_frames' = written_frames
           /\ sequence' = sequence
           /\ default_image' = default_image ]_vars

\* C25 as claimed: a write_default_image that returns TooLargeImage or
\* TooSmallImage has left default_image false
C25_FailedDefaultImageKeepsFlag ==
    [][ ( /\ Calls("write_default_image")
          /\ result'.kind \in {"TooLargeImage", "TooSmallImage"} )
        => default_image' = FALSE ]_vars

\* C26 as claimed: in every state, each fdAT of the sink has an IDAT before it
C26_FdatAfterIdat ==
    \A i \in 1..Len(sink) :
        sink[i].type = "fdAT" => \E j \in 1..(i - 1) : sink[j].type = "IDAT"

\* the fdAT chunks without an IDAT before them come from these two: a
\* write_default_image that returned an error (C25), and a first write_frame
\* that returned an error after its fcTL (C24)
C26_FdatAfterIdatUnlessRejected ==
    [][ ( /\ Calls("write_frame") /\ C26_FdatAfterIdat /\ ~C26_FdatAfterIdat' )
        => \/ default_image /\ "Ok" \notin wdi
           \/ ~default_image /\ sequence > 0 /\ AcceptedFrames(sink) = 0 ]_vars

\* C27 as claimed (frames >= 1): when finish has returned Ok, every fcTL of
\* the sink is immediately followed by an IDAT or an fdAT
C27_FrameControlHasData ==
    (op = "finish" /\ result = Ok /\ meta.frames >= 1) =>
        \A i \in 1..Len(sink) :
            sink[i].type = "fcTL" =>
                i < Len(sink) /\ sink[i + 1].type \in {"IDAT", "fdAT"}

\* C28 as claimed: when finish has returned Ok, the sink holds exactly one
\* IDAT, whatever Meta.frames is
C28_OneIdatAtFinish ==
    (op = "finish" /\ result = Ok) => Count(sink, "IDAT") = 1

\* the sink never holds more than one IDAT
C28_AtMostOneIdat == Count(sink, "IDAT") <= 1

\* C29 as claimed: every write_frame and write_default_image returns a result
C29_CallsReturn ==
    op \in {"write_frame", "write_default_image"} => result # Panic

\* C30 as claimed: a write_frame that returned Ok has written an fcTL and an
\* IDAT or fdAT whose filtered scanlines are as many as the height in the
\* fcTL
C30_ScanlinesEqualHeight ==
    (op = "write_frame" /\ Probed /\ result = Ok) =>
        /\ Len(emitted) = 2
        /\ emitted[1].type = "fcTL" /\ emitted[2].type \in {"IDAT", "fdAT"}
        /\ emitted[2].data[1] = emitted[1].data[2]

\* the scanlines are never fewer than the height, and at most y more and a
\* trailing partial one
C30_ScanlinesWithinBottom ==
    (op = "write_frame" /\ Probed /\ result = Ok) =>
        /\ emitted[2].data[1] >= emitted[1].data[2]
        /\ emitted[2].data[1] <= emitted[1].data[2] + emitted[1].data[4] + 1

\* C31 as claimed: for all u32 x, y, width and height, a rectangle with
\* x + width > Meta.width or y + height > Meta.height, the sums taken as
\* integers, is rejected with TooLargeImage
C31_RectangleCheckExact ==
    (job.fn = "compute_row_stride" /\ out.state = "done") =>
        LET rect == RectOfJob(job)
            m    == MetaOfJob(job)
        IN  ( \/ Exceeds32(rect.x, rect.width, m.width)
              \/ Exceeds32(rect.y, rect.height, m.height) )
            => out.res = Err("TooLargeImage")

\* where neither sum overflows 32 bits the check is exact, in either build
C31_ExactWithoutOverflow ==
    (job.fn = "compute_row_stride" /\ out.state = "done") =>
        LET rect == RectOfJob(job)
            m    == MetaOfJob(job)
        IN  ( /\ ~Add32(rect.x, rect.width).overflow
              /\ ~Add32(rect.y, rect.height).overflow )
            => ( ( \/ Exceeds32(rect.x, rect.width, m.width)
                   \/ Exceeds32(rect.y, rect.height, m.height) )
                 => out.res = Err("TooLargeImage") )

\* where the first sum evaluated overflows, the dev build panics
C31_DevPanicsOnOverflow ==
    (job.fn = "compute_row_stride" /\ out.state = "done" /\ job.name = "dev"
        /\ Add32(RectOfJob(job).x, RectOfJob(job).width).overflow)
        => out.res = Panic

\* C32 as claimed (frames >= 1): the first write_frame that returns Ok, on an
\* Encoder that has written no default image, appends an fcTL of sequence 0
\* and an IDAT without sequence number, and leaves sequence and
\* written_frames at 1
C32_FirstFrame ==
    [][ ( /\ Calls("write_frame") /\ result' = Ok /\ meta.frames >= 1
          /\ AcceptedFrames(sink) = 0 /\ Count(sink, "IDAT") = 0 )
        => /\ sink' = sink \o <<Brief(Chunk("fcTL", 0, <<>>)),
                                 Brief(Chunk("IDAT", NoneV, <<>>))>>
           /\ sequence' = 1
           /\ written_frames' = 1 ]_vars

\* the same of a write_frame made in the state create returns (default_image
\* false, sequence 0, written_frames 0), which no earlier call has changed
C32_FirstFrameAfterCreate ==
    [][ ( /\ Calls("write_frame") /\ result' = Ok
          /\ ~default_image /\ sequence = 0 /\ written_frames = 0 )
        => /\ sink' = sink \o <<Brief(Chunk("fcTL", 0, <<>>)),
                                 Brief(Chunk("IDAT", NoneV, <<>>))>>
           /\ sequence' = 1
           /\ written_frames' = 1 ]_vars

\* C33 as claimed: a write_default_image that returns Ok appends one IDAT and
\* nothing else, sets default_image, and leaves sequence and written_frames
\* as they were, both 0
C33_DefaultImageEffect ==
    [][ ( Calls("write_default_image") /\ result' = Ok )
        => /\ sink' = Append(sink, Brief(Chunk("IDAT", NoneV, <<>>)))
           /\ default_image'
           /\ sequence' = sequence /\ sequence = 0
           /\ written_frames' = written_frames /\ written_frames = 0 ]_vars

\* all of it but written_frames being 0, which holds where Meta.frames >= 1
C33_DefaultImageEffectOfCounted ==
    [][ ( Calls("write_default_image") /\ result' = Ok )
        => /\ sink' = Append(sink, Brief(Chunk("IDAT", NoneV, <<>>)))
           /\ default_image' /\ ~default_image
           /\ sequence' = sequence /\ sequence = 0
           /\ written_frames' = written_frames
           /\ (meta.frames >= 1 => written_frames = 0) ]_vars

\* C34: the payload of an fcTL is 26 bytes: the sequence number, then width,
\* height, x_offset and y_offset (four bytes each), delay numerator and
\* denominator (two bytes each), dispose and blend (one byte each); a field
\* the Frame does not give, or any field when the Frame is absent, is the
\* extent of the Meta for width and height, 0 for the offsets, 0/100 or 0/0
\* for the delay, 0 (None) for dispose and 0 (Source) for blend
C34_FrameControlPayload ==
    (job.fn = "write_frame_control" /\ out.state = "done") =>
        LET b  == out.bytes
            fr == job.bytes[2]
            Given(f) == fr.some /\ fr[f] # NoneV
        IN  /\ Len(b) = 26
            /\ FromBe32(SubSeq(b, 1, 4)) = job.bytes[1]
            /\ FromBe32(SubSeq(b, 5, 8))
                   = IF Given("width") THEN fr.width ELSE meta.width
            /\ FromBe32(SubSeq(b, 9, 12))
                   = IF Given("height") THEN fr.height ELSE meta.height
            /\ FromBe32(SubSeq(b, 13, 16)) = IF Given("x") THEN fr.x ELSE 0
            /\ FromBe32(SubSeq(b, 17, 20)) = IF Given("y") THEN fr.y ELSE 0
            /\ <<FromBe16(SubSeq(b, 21, 22)), FromBe16(SubSeq(b, 23, 24))>>
                   \in IF fr.some /\ fr.delay # <<>> THEN {fr.delay}
                       ELSE {<<0, 100>>, <<0, 0>>}
            /\ b[25] = IF Given("dispose_operator") THEN fr.dispose_operator ELSE 0
            /\ b[26] = IF Given("blend_operator") THEN fr.blend_operator ELSE 0

\* a Frame giving the offsets and the dispose operator only, at sequence 2:
\* the extents are the canvas, the delay is 0/0 and blend is Source
C34_Witness ==
    /\ job.fn = "write_frame_control" /\ out.state = "done"
    /\ job.bytes[1] = 2
    /\ job.bytes[2] = [NoFrame EXCEPT !.some = TRUE, !.x = 1, !.y = 258,
                                      !.dispose_operator = 2]
    /\ out.bytes = <<0, 0, 0, 2,  0, 0, 0, CanvasWidth,  0, 0, 0, CanvasHeight + 1,
                     0, 0, 0, 1,  0, 0, 1, 2,  0, 0,  0, 0,  2, 0>>

\* the absent Frame: every field at its default
C34_WitnessAbsent ==
    /\ job.fn = "write_frame_control" /\ out.state = "done"
    /\ job.bytes = <<0, NoFrame>>
    /\ out.bytes = <<0, 0, 0, 0,  0, 0, 0, CanvasWidth,  0, 0, 0, CanvasHeight + 1,
                     0, 0, 0, 0,  0, 0, 0, 0,  0, 0,  0, 0,  0, 0>>

\* C35 as claimed: on every buffer that is whole lines of a row_stride,
\* infer_best_filter records the same size for each of the five filters and
\* returns Paeth, whatever the bytes are
C35_InferIgnoresPixels ==
    ( /\ job.fn = "infer" /\ out.state = "done"
      /\ job.row_stride > 0 /\ Len(job.bytes) % job.row_stride = 0 )
    => /\ out.res = Ok
       /\ Len(out.sizes) = 5
       /\ \A i \in 1..5 : out.sizes[i] = out.sizes[1]
       /\ out.filter = "Paeth"

\* it does so on the buffers of at least one line whose lines are no shorter
\* than a pixel; on the others of whole lines it panics, whatever the bytes
C35_InferIgnoresPixelsWhereReturned ==
    ( /\ job.fn = "infer" /\ out.state = "done"
      /\ job.row_stride > 0 /\ Len(job.bytes) % job.row_stride = 0 )
    => IF Len(job.bytes) > 0 /\ job.pixel_bytes <= job.row_stride
       THEN /\ out.res = Ok
            /\ Len(out.sizes) = 5
            /\ \A i \in 1..5 : out.sizes[i] = out.sizes[1]
            /\ out.filter = "Paeth"
       ELSE out.res = Panic

\* each line of the output is the tag and then, for each byte of the line of
\* the buffer, the byte minus the predictor of the tag modulo 256, the
\* predictor taken of a, the byte pixel_bytes to the left (0 within the
\* first pixel_bytes of the line), b, the byte above (0 on the top line),
\* and c, the byte above a (0 where a or b is)
Predicted(tag) ==
    LET rs   == job.row_stride
        bpp  == job.pixel_bytes
        rows == Len(job.bytes) \div rs
        In(k, i) == job.bytes[k * rs + i + 1]
        a(k, i) == IF i >= bpp THEN In(k, i - bpp) ELSE 0
        b(k, i) == IF k >= 1 THEN In(k - 1, i) ELSE 0
        c(k, i) == IF i >= bpp /\ k >= 1 THEN In(k - 1, i - bpp) ELSE 0
    IN  /\ Len(job.bytes) = rows * rs
        /\ Len(out.bytes) = rows * (1 + rs)
        /\ \A k \in 0..(rows - 1) :
              /\ out.bytes[k * (1 + rs) + 1] = tag
              /\ \A i \in 0..(rs - 1) :
                    out.bytes[k * (1 + rs) + 2 + i]
                        = (In(k, i) - Predictor(tag, a(k, i), b(k, i), c(k, i))) % 256

\* C36: what filter_paeth writes for a byte is the byte minus Paeth(a, b, c)
\* modulo 256, Paeth being the one of a, b, c nearest to p = a + b - c (p an
\* integer, not a byte), a before b before c among equally near ones; a and
\* c are 0 within the first pixel_bytes of a line, b and c on the top line
C36_PaethOutput ==
    (job.fn = "apply" /\ job.name = "Paeth" /\ out.state = "done" /\ out.res = Ok)
        => Predicted(4)

\* lines <<0, 255>> and <<128, 1>>, a byte each pixel: for the last byte
\* a = 128, b = 255, c = 0 and p = 383, nearest to b
C36_Witness ==
    /\ job.fn = "apply" /\ job.name = "Paeth" /\ out.state = "done"
    /\ job.row_stride = 2 /\ job.pixel_bytes = 1
    /\ job.bytes = <<0, 255, 128, 1>>
    /\ out.res = Ok
    /\ out.bytes = <<4, 0, 255, 4, 128, 2>>

\* C37: what filter_average writes for a byte is the byte minus
\* floor((a + b) / 2) modulo 256, a + b an integer up to 510; b is 0 on the
\* top line, a is 0 within the first pixel_bytes of a line
C37_AverageOutput ==
    (job.fn = "apply" /\ job.name = "Average" /\ out.state = "done" /\ out.res = Ok)
        => Predicted(3)

\* lines <<0, 255>> and <<255, 1>>, a byte each pixel: for the last byte
\* a = b = 255 and the byte written is 1 - 255 modulo 256
C37_Witness ==
    /\ job.fn = "apply" /\ job.name = "Average" /\ out.state = "done"
    /\ job.row_stride = 2 /\ job.pixel_bytes = 1
    /\ job.bytes = <<0, 255, 255, 1>>
    /\ out.res = Ok
    /\ out.bytes = <<3, 0, 255, 3, 255, 2>>

C38_WitnessShort ==
    /\ job.fn = "infer" /\ out.state = "done"
    /\ job.row_stride = 1 /\ Len(job.bytes) = MaxInferLen
    /\ out.bytes = job.bytes

====
